---------------------------- MODULE Spec2Model ----------------------------
(***************************************************************************)
(* Model of the particle simulation of src/src/main.rs: the four Update    *)
(* systems (gravity, detect_collisions, update_density,                    *)
(* apply_pressure_force), the schedule ParticlePlugin::build gives them,   *)
(* and the pure functions they call.                                       *)
(*                                                                         *)
(* Numbers.  An f32 is modelled as an extended rational [n, d]: d > 0 is   *)
(* the finite value n/d in lowest terms, 1/0 and -1/0 are the two          *)
(* infinities and 0/0 is NaN.  Arithmetic is exact: rounding, overflow and *)
(* the sign of zero are not modelled.  A square root is kept as its        *)
(* radicand (Length) or as a coefficient over a root (normalize).  Vec3    *)
(* values are modelled by their x and y components; z is 0 in every vector *)
(* the program builds, and is NaN exactly when x and y are.                *)
(*                                                                         *)
(* Kernel values and densities involve pi and roots that do not cancel;    *)
(* the model keeps their sign (0 or positive).  The pressure acceleration  *)
(* is therefore not computed (density_to_pressure and shared_pressure are  *)
(* not modelled): it is NaN or infinite when a divisor is zero, zero when  *)
(* no term contributes, and otherwise drawn from AccSet.                   *)
(*                                                                         *)
(* Specifications.  Spec runs whole frames from setup.  SpecCollide runs   *)
(* detect_collisions alone from stores with velocities.  SpecElastic and   *)
(* SpecBoundary call elastic_collision and detect_boundaries on inputs     *)
(* from bounded sets.                                                      *)
(***************************************************************************)
EXTENDS Integers, Sequences, FiniteSets, TLC

----------------------------------------------------------------------------
(* f32 arithmetic *)

RECURSIVE GCD(_, _)
GCD(a, b) == IF b = 0 THEN a ELSE GCD(b, a % b)

IAbs(x) == IF x < 0 THEN -x ELSE x
ISgn(x) == IF x < 0 THEN -1 ELSE IF x > 0 THEN 1 ELSE 0

Frac(n, d) ==
  IF d = 0 THEN [n |-> ISgn(n), d |-> 0]
  ELSE LET g == GCD(IAbs(n), IAbs(d))
           s == ISgn(d)
       IN  [n |-> (s * n) \div g, d |-> (s * d) \div g]

R(n) == [n |-> n, d |-> 1]

NaN    == [n |-> 0, d |-> 0]
PosInf == [n |-> 1, d |-> 0]
NegInf == [n |-> -1, d |-> 0]

IsNaN(a)    == a.d = 0 /\ a.n = 0
IsFinite(a) == a.d > 0

RNeg(a) == [n |-> -a.n, d |-> a.d]

RAdd(a, b) ==
  IF IsNaN(a) \/ IsNaN(b) THEN NaN
  ELSE IF a.d = 0 /\ b.d = 0 THEN (IF a.n = b.n THEN a ELSE NaN)
  ELSE IF a.d = 0 THEN a
  ELSE IF b.d = 0 THEN b
  ELSE LET l == (a.d \div GCD(a.d, b.d)) * b.d
       IN  Frac(a.n * (l \div a.d) + b.n * (l \div b.d), l)

RSub(a, b) == RAdd(a, RNeg(b))

RMul(a, b) ==
  IF IsNaN(a) \/ IsNaN(b) THEN NaN
  ELSE Frac(a.n * b.n, a.d * b.d)

\* 1.0 / b: the reciprocal of (positive) zero is +infinity
RRecip(b) ==
  IF IsNaN(b) THEN NaN
  ELSE IF b.n = 0 THEN PosInf
  ELSE Frac(b.d, b.n)

RDiv(a, b) == RMul(a, RRecip(b))

\* a > 0, a < b, a >= b as f32 comparisons: false when an operand is NaN
RPos(a) == a.n > 0
RLt(a, b) == RPos(RSub(b, a))
RGt(a, b) == RLt(b, a)
RGe(a, b) == ~IsNaN(a) /\ ~IsNaN(b) /\ (a = b \/ RLt(b, a))

\* f32::abs and f32::signum (signum of a zero is 1.0, of NaN is NaN)
RAbs(a) == [n |-> IAbs(a.n), d |-> a.d]
RSignum(a) == IF IsNaN(a) THEN NaN ELSE IF a.n < 0 THEN R(-1) ELSE R(1)

----------------------------------------------------------------------------
(* Vec3 (x and y components) *)

Vec(x, y) == <<x, y>>
VZero  == Vec(R(0), R(0))
VNaN   == Vec(NaN, NaN)
NEG_Y  == Vec(R(0), R(-1))

VAdd(u, v)   == Vec(RAdd(u[1], v[1]), RAdd(u[2], v[2]))
VSub(u, v)   == Vec(RSub(u[1], v[1]), RSub(u[2], v[2]))
VScale(u, s) == Vec(RMul(u[1], s), RMul(u[2], s))
VDot(u, v)   == RAdd(RMul(u[1], v[1]), RMul(u[2], v[2]))
VIsNaN(u)    == IsNaN(u[1]) \/ IsNaN(u[2])
VIsFinite(u) == IsFinite(u[1]) /\ IsFinite(u[2])


\* Vec3::length() and Vec3::distance(): the square root of a sum of squares,
\* kept as its radicand sq (the value is sqrt(sq))
Length(u)      == [sq |-> VDot(u, u)]
Distance(u, v) == Length(VSub(u, v))

\* sqrt(sq) < s, sqrt(sq) > 0 and sqrt(sq) >= s for a rational s
LenLt(l, s) == RPos(s) /\ RLt(l.sq, RMul(s, s))
LenPos(l)   == RPos(l.sq)
LenGe(l, s) == ~IsNaN(l.sq) /\ ~IsNaN(s) /\ (~RPos(s) \/ RGe(l.sq, RMul(s, s)))

\* Vec3::normalize(): self * (1.0 / self.length()).  A component of the
\* result is the coefficient c over the root sqrt(sq).  For the zero vector
\* the reciprocal is infinite and every component is 0 * inf = NaN.
normalize(u) ==
  LET l2 == VDot(u, u)
      recip == IF IsNaN(l2) THEN NaN ELSE IF l2.n = 0 THEN PosInf ELSE R(0)
  IN  IF IsFinite(l2) /\ RPos(l2)
      THEN <<[c |-> u[1], sq |-> l2], [c |-> u[2], sq |-> l2]>>
      ELSE <<[c |-> RMul(u[1], recip), sq |-> R(1)],
             [c |-> RMul(u[2], recip), sq |-> R(1)]>>

\* u.dot(n) for a normalized n: again a coefficient over sqrt(sq)
DotUnit(u, n) ==
  [c |-> RAdd(RMul(u[1], n[1].c), RMul(u[2], n[2].c)), sq |-> n[1].sq]

\* a rational times, and a quotient by a rational of, a value c / sqrt(sq)
RootScale(s, k) == [c |-> RMul(s, k.c), sq |-> k.sq]
RootDiv(k, s)   == [c |-> RDiv(k.c, s), sq |-> k.sq]
\* (c1 / sqrt(sq)) * (c2 / sqrt(sq)) = c1 * c2 / sq
RootMul(k, l)   == RDiv(RMul(k.c, l.c), k.sq)
\* scalar k times the normalized vector n
RootVec(k, n)   == Vec(RootMul(k, n[1]), RootMul(k, n[2]))

----------------------------------------------------------------------------
(* Program constants *)

PARTICLE_SIZE       == 3
GRAVITY_FACTOR      == 0
COLLISION_DAMPENING == Frac(1, 2)
RESTITUTION         == 1
SMOOTHING_RADIUS    == 200
MASS                == 1

\* window.width() and window.height() of the primary window
Window == [width |-> R(1280), height |-> R(720)]

----------------------------------------------------------------------------
(* Pure functions *)

\* A particle is [position, velocity, mass]
\* A faulty variant: a contact on y scales the whole velocity vector
detect_boundaries_vectorwise(particle, window) ==
  LET window_width  == RSub(RDiv(window.width, R(2)), particle.mass)
      window_height == RSub(RDiv(window.height, R(2)), particle.mass)
      hitY == RGt(RAbs(particle.position[2]), window_height)
      hitX == RGt(RAbs(particle.position[1]), window_width)
      py == IF hitY THEN RMul(window_height, RSignum(particle.position[2]))
                    ELSE particle.position[2]
      v1 == IF hitY THEN VScale(particle.velocity, RNeg(COLLISION_DAMPENING))
                    ELSE particle.velocity
      px == IF hitX THEN RMul(window_width, RSignum(particle.position[1]))
                    ELSE particle.position[1]
      vx == IF hitX THEN RMul(v1[1], RNeg(COLLISION_DAMPENING)) ELSE v1[1]
  IN  [particle EXCEPT !.position = Vec(px, py), !.velocity = Vec(vx, v1[2])]

detect_boundaries(particle, window) ==
  LET window_width  == RSub(RDiv(window.width, R(2)), particle.mass)
      window_height == RSub(RDiv(window.height, R(2)), particle.mass)
      hitY == RGt(RAbs(particle.position[2]), window_height)
      hitX == RGt(RAbs(particle.position[1]), window_width)
      py == IF hitY THEN RMul(window_height, RSignum(particle.position[2]))
                    ELSE particle.position[2]
      vy == IF hitY THEN RMul(particle.velocity[2], RNeg(COLLISION_DAMPENING))
                    ELSE particle.velocity[2]
      px == IF hitX THEN RMul(window_width, RSignum(particle.position[1]))
                    ELSE particle.position[1]
      vx == IF hitX THEN RMul(particle.velocity[1], RNeg(COLLISION_DAMPENING))
                    ELSE particle.velocity[1]
  IN  [particle EXCEPT !.position = Vec(px, py), !.velocity = Vec(vx, vy)]

\* A faulty variant: the impulse divided by m1 for both particles
elastic_collision_oneMass(m1, m2, v1, v2, r1, r2) ==
  LET n     == normalize(VSub(r1, r2))
      v_rel == DotUnit(VSub(v1, v2), n)
      j     == RootDiv(RootScale(RNeg(RAdd(R(1), R(RESTITUTION))), v_rel),
                       RAdd(RDiv(R(1), m1), RDiv(R(1), m2)))
      v1f   == VAdd(v1, RootVec(RootDiv(j, m1), n))
      v2f   == VSub(v2, RootVec(RootDiv(j, m1), n))
  IN  IF RPos(v_rel.c) THEN <<v1, v2>> ELSE <<v1f, v2f>>

elastic_collision(m1, m2, v1, v2, r1, r2) ==
  LET n     == normalize(VSub(r1, r2))
      v_rel == DotUnit(VSub(v1, v2), n)
      j     == RootDiv(RootScale(RNeg(RAdd(R(1), R(RESTITUTION))), v_rel),
                       RAdd(RDiv(R(1), m1), RDiv(R(1), m2)))
      v1f   == VAdd(v1, RootVec(RootDiv(j, m1), n))
      v2f   == VSub(v2, RootVec(RootDiv(j, m2), n))
  IN  IF RPos(v_rel.c) THEN <<v1, v2>> ELSE <<v1f, v2f>>


\* The kernel values involve pi and square roots; the model keeps the sign
\* of each (0 for 0.0, 1 for a positive value), which is what decides
\* whether a density is zero.  0.0.max(radius - dist) is 0.0 also when dist
\* is NaN, so the kernel is positive exactly when dist < radius.
smoothing_kernel(radius, dist) ==
  IF LenLt(dist, radius) THEN 1 ELSE 0

\* (radius - dist) * scale below the radius; its caller passes dist > 0.0
\* only, so dist is never NaN here
smoothing_kernel_dx(radius, dist) ==
  IF LenGe(dist, radius) THEN 0
  ELSE IF LenLt(dist, radius) THEN 1 ELSE 0

\* sign of the sum of MASS * influence over the particles of the query
calculate_density(query, sample_particle) ==
  LET influence(k) ==
        smoothing_kernel(R(SMOOTHING_RADIUS),
                         Distance(query[k].position, sample_particle.position))
  IN  IF \E k \in DOMAIN query : MASS * influence(k) > 0 THEN 1 ELSE 0

----------------------------------------------------------------------------
(* Bounds of the model *)

NumParticles   == 2    \* particles setup spawns (NUM_PARTICLES in the program)
MaxTicks       == 2    \* frames simulated
StageParticles == 3    \* particles of the collision stage run on its own

\* Positions setup can draw (x in [-640, 640), y in [-360, 360)): two
\* overlapping places, the second within a radius of the right wall
InitPositions == {Vec(R(634), R(0)), Vec(R(639), R(0))}

\* time.delta_secs() of a frame
DtSet == {R(1)}

\* Finite values of a pressure acceleration: its f32 value is not computed,
\* the model draws it from this set
AccSet == {Vec(R(2), R(0)), Vec(R(-2), R(0))}
NonFiniteVecs == {Vec(a, b) : a, b \in {NaN, PosInf, NegInf}}

----------------------------------------------------------------------------
(* State *)

VARIABLES
  particles,    \* entity -> Particle component [position, velocity, mass]
  transforms,   \* entity -> Transform.translation
  densities,    \* SimulationState.densities (sign of each entry)
  densityWrite, \* per entry of densities: frame and entity of its last write
  tick,         \* the frame being run
  dt,           \* time.delta_secs() of this frame
  ran,          \* the systems that have completed in this frame, in order
  pc,           \* "idle", or "resolve" inside detect_collisions' second loop
  entities,     \* detect_collisions: the snapshot Vec
  collisions,   \* detect_collisions: the candidate Vec
  ci,           \* detect_collisions: index of the next candidate to resolve
  call          \* a call of a pure function: its arguments and result

Entities == DOMAIN particles

vars == <<particles, transforms, densities, densityWrite, tick, dt, ran, pc,
          entities, collisions, ci, call>>

Systems == {"gravity", "detect_collisions", "update_density",
            "apply_pressure_force"}

NoCall == [fn |-> "none"]

\* setup: NUM_PARTICLES particles at random positions, at rest, mass
\* PARTICLE_SIZE, Transform at the same position; densities all 0.0
Init ==
  /\ \E pos \in [1..NumParticles -> InitPositions] :
       /\ particles = [e \in 1..NumParticles |->
            [position |-> pos[e], velocity |-> VZero, mass |-> R(PARTICLE_SIZE)]]
       /\ transforms = pos
  /\ densities = [i \in 1..NumParticles |-> 0]
  /\ densityWrite = [i \in 1..NumParticles |-> [tick |-> 0, entity |-> 0]]
  /\ tick = 1
  /\ dt \in DtSet
  /\ ran = <<>>
  /\ pc = "idle"
  /\ entities = <<>>
  /\ collisions = <<>>
  /\ ci = 0
  /\ call = NoCall

----------------------------------------------------------------------------
(* The Update schedule *)

\* (gravity, detect_collisions, (update_density, apply_pressure_force).chain()):
\* the only ordering constraint is the chain.
\* A faulty variant: the tuple without .chain()
MustPrecede_unchained(s) == {}

MustPrecede(s) ==
  IF s = "apply_pressure_force" THEN {"update_density"} ELSE {}

Ran == {ran[k] : k \in 1..Len(ran)}

\* The four systems all access Particle, three of them mutably, so the
\* executor never overlaps two of them: a system starts when none is
\* running, it has not run in this frame and its predecessors have.
Schedulable(s) ==
  /\ pc = "idle"
  /\ s \notin Ran
  /\ MustPrecede(s) \subseteq Ran

Completed(s) == ran' = Append(ran, s)

----------------------------------------------------------------------------
(* gravity *)

\* One iteration of gravity's loop: the particle and the Transform it leaves
gravity_step(particle, delta) ==
  LET velocity == VAdd(particle.velocity,
                       VScale(VScale(NEG_Y, R(GRAVITY_FACTOR)), delta))
      position == VAdd(particle.position, VScale(velocity, delta))
      moved    == [particle EXCEPT !.velocity = velocity, !.position = position]
  IN  [translation |-> position,
       particle    |-> detect_boundaries(moved, Window)]

gravity ==
  /\ Schedulable("gravity")
  /\ particles'  = [e \in Entities |-> gravity_step(particles[e], dt).particle]
  /\ transforms' = [e \in Entities |-> gravity_step(particles[e], dt).translation]
  /\ Completed("gravity")
  /\ UNCHANGED <<densities, densityWrite, tick, dt, pc, entities, collisions,
                 ci, call>>

----------------------------------------------------------------------------
(* detect_collisions *)

\* The snapshot: one tuple per entity, in the query's iteration order
Snapshot(order) ==
  [k \in 1..Len(order) |->
     [entity |-> order[k], pos |-> transforms[order[k]],
      vel |-> particles[order[k]].velocity, mass |-> particles[order[k]].mass]]

\* The query iterates the particle table in spawn order
QueryOrder == [k \in 1..Len(particles) |-> k]

\* A faulty variant: for j in 0..entities.len()
InnerStart_fromFirst(i) == 1

\* for j in (i + 1)..entities.len()
InnerStart(i) == i + 1

Candidate(a, b) ==
  [e1 |-> a.entity, e2 |-> b.entity, pos1 |-> a.pos, pos2 |-> b.pos,
   vel1 |-> a.vel, vel2 |-> b.vel, mass1 |-> a.mass, mass2 |-> b.mass]

\* The two nested loops from (i, j) on: the candidates they push
RECURSIVE CollectFrom(_, _, _)
CollectFrom(ents, i, j) ==
  IF i > Len(ents) THEN <<>>
  ELSE IF j > Len(ents) THEN CollectFrom(ents, i + 1, InnerStart(i + 1))
  ELSE LET dist == Length(VSub(ents[i].pos, ents[j].pos))
           hit  == LenLt(dist, RAdd(ents[i].mass, ents[j].mass))
       IN  (IF hit THEN <<Candidate(ents[i], ents[j])>> ELSE <<>>)
             \o CollectFrom(ents, i, j + 1)

Candidates(ents) == CollectFrom(ents, 1, InnerStart(1))

\* The body of the second loop for one candidate: both velocity writes
Resolve(store, c) ==
  LET new == elastic_collision(c.mass1, c.mass2, c.vel1, c.vel2, c.pos1, c.pos2)
      one == [store EXCEPT ![c.e1].velocity = new[1]]
  IN  [one EXCEPT ![c.e2].velocity = new[2]]

\* First part: the snapshot and the candidate list.  With no candidate the
\* system is complete.
detect_collisions ==
  /\ Schedulable("detect_collisions")
  /\ LET ents == Snapshot(QueryOrder)
         cands == Candidates(ents)
     IN  IF cands = <<>>
         THEN /\ Completed("detect_collisions")
              /\ UNCHANGED <<pc, entities, collisions, ci>>
         ELSE /\ pc' = "resolve"
              /\ entities' = ents
              /\ collisions' = cands
              /\ ci' = 1
              /\ UNCHANGED ran
  /\ UNCHANGED <<particles, transforms, densities, densityWrite, tick, dt, call>>

\* Second loop, one candidate per step; the system completes with the last
resolve_collision ==
  /\ pc = "resolve"
  /\ particles' = Resolve(particles, collisions[ci])
  /\ IF ci < Len(collisions)
     THEN /\ ci' = ci + 1
          /\ UNCHANGED <<pc, entities, collisions, ran>>
     ELSE /\ pc' = "idle"
          /\ entities' = <<>>
          /\ collisions' = <<>>
          /\ ci' = 0
          /\ Completed("detect_collisions")
  /\ UNCHANGED <<transforms, densities, densityWrite, tick, dt, call>>

----------------------------------------------------------------------------
(* update_density and apply_pressure_force *)

update_density ==
  /\ Schedulable("update_density")
  /\ Len(QueryOrder) <= Len(densities)       \* an index beyond the Vec panics
  /\ densities' = [i \in DOMAIN densities |->
                     IF i \in DOMAIN QueryOrder
                     THEN calculate_density(particles, particles[QueryOrder[i]])
                     ELSE densities[i]]
  /\ densityWrite' = [i \in DOMAIN densities |->
                        IF i \in DOMAIN QueryOrder
                        THEN [tick |-> tick, entity |-> QueryOrder[i]]
                        ELSE densityWrite[i]]
  /\ Completed("update_density")
  /\ UNCHANGED <<particles, transforms, tick, dt, pc, entities, collisions,
                 ci, call>>

\* calculate_pressure_force: the indices i whose term is accumulated for the
\* sample at sample_index (i != sample_index and dist > 0); densities[i] is
\* the divisor of each such term
PressureTerms(sample_index) ==
  {i \in DOMAIN QueryOrder :
     /\ i # sample_index
     /\ LenPos(Distance(transforms[QueryOrder[i]],
                        particles[QueryOrder[sample_index]].position))}

\* the terms whose slope is not zero
LiveTerms(sample_index) ==
  {i \in PressureTerms(sample_index) :
     smoothing_kernel_dx(R(SMOOTHING_RADIUS),
        Distance(transforms[QueryOrder[i]],
                 particles[QueryOrder[sample_index]].position)) > 0}

\* pressure_force / state.densities[i]: the values the quotient can take.
\* A zero divisor gives a non-finite value (0/0 is NaN); otherwise a sum
\* without live terms is exactly zero, and any other sum is some finite
\* vector.
PressureAccelerations(i) ==
  IF \E j \in PressureTerms(i) : densities[j] = 0 THEN NonFiniteVecs
  ELSE IF LiveTerms(i) = {}
       THEN (IF densities[i] = 0 THEN {VNaN} ELSE {VZero})
       ELSE (IF densities[i] = 0 THEN NonFiniteVecs ELSE AccSet)

\* One acceleration per index 1..n, each among the values its quotient can take
RECURSIVE AccelerationChoices(_)
AccelerationChoices(n) ==
  IF n = 0 THEN {<<>>}
  ELSE {Append(s, a) : s \in AccelerationChoices(n - 1),
                       a \in PressureAccelerations(n)}

apply_pressure_force ==
  /\ Schedulable("apply_pressure_force")
  /\ Len(QueryOrder) <= Len(densities)
  /\ \E acc \in AccelerationChoices(Len(QueryOrder)) :
       particles' = [e \in Entities |->
          LET i == CHOOSE k \in DOMAIN QueryOrder : QueryOrder[k] = e
          IN  [particles[e] EXCEPT !.velocity = VAdd(@, VScale(acc[i], dt))]]
  /\ Completed("apply_pressure_force")
  /\ UNCHANGED <<transforms, densities, densityWrite, tick, dt, pc, entities,
                 collisions, ci, call>>

----------------------------------------------------------------------------
(* Frames *)

\* The Update schedule runs once per frame, each system once
next_frame ==
  /\ Ran = Systems
  /\ tick < MaxTicks
  /\ tick' = tick + 1
  /\ dt' \in DtSet
  /\ ran' = <<>>
  /\ UNCHANGED <<particles, transforms, densities, densityWrite, pc, entities,
                 collisions, ci, call>>

Next ==
  \/ gravity
  \/ detect_collisions
  \/ resolve_collision
  \/ update_density
  \/ apply_pressure_force
  \/ next_frame

Spec == Init /\ [][Next]_vars

----------------------------------------------------------------------------
(* The collision stage on its own: detect_collisions from a store of       *)
(* particles at distinct places with the velocities earlier frames left    *)

StagePositions  == {Vec(R(0), R(0)), Vec(R(4), R(0)), Vec(R(-4), R(0)),
                    Vec(R(0), R(3))}
StageVelocities == {VZero, Vec(R(1), R(0)), Vec(R(-1), R(1))}

InitCollide ==
  /\ \E pos \in [1..StageParticles -> StagePositions],
        vel \in [1..StageParticles -> StageVelocities] :
       /\ \A a, b \in 1..StageParticles : a # b => pos[a] # pos[b]
       /\ particles = [e \in 1..StageParticles |->
            [position |-> pos[e], velocity |-> vel[e], mass |-> R(PARTICLE_SIZE)]]
       /\ transforms = pos
  /\ densities = [i \in 1..StageParticles |-> 0]
  /\ densityWrite = [i \in 1..StageParticles |-> [tick |-> 0, entity |-> 0]]
  /\ tick = 1
  /\ dt \in DtSet
  /\ ran = <<>>
  /\ pc = "idle"
  /\ entities = <<>>
  /\ collisions = <<>>
  /\ ci = 0
  /\ call = NoCall

NextCollide == detect_collisions \/ resolve_collision

SpecCollide == InitCollide /\ [][NextCollide]_vars

----------------------------------------------------------------------------
(* Calls of the pure functions on inputs from bounded sets *)

NoStore ==
  /\ particles = <<>>
  /\ transforms = <<>>
  /\ densities = <<>>
  /\ densityWrite = <<>>
  /\ tick = 0
  /\ dt = R(0)
  /\ ran = <<>>
  /\ pc = "call"
  /\ entities = <<>>
  /\ collisions = <<>>
  /\ ci = 0

KeepStore ==
  UNCHANGED <<particles, transforms, densities, densityWrite, tick, dt, ran,
              pc, entities, collisions, ci>>

ElasticMasses     == {R(1), R(2), R(3)}
ElasticVelocities == {VZero, Vec(R(1), R(0)), Vec(R(-1), R(2))}
ElasticPositions  == {Vec(R(0), R(0)), Vec(R(1), R(0)), Vec(R(3), R(4)),
                      Vec(R(-1), R(1))}

InitElastic ==
  /\ NoStore
  /\ \E m1, m2 \in ElasticMasses, v1, v2 \in ElasticVelocities,
        r1, r2 \in ElasticPositions :
       call = [fn |-> "elastic_collision", m1 |-> m1, m2 |-> m2, v1 |-> v1,
               v2 |-> v2, r1 |-> r1, r2 |-> r2, done |-> FALSE,
               out |-> <<v1, v2>>]

call_elastic_collision ==
  /\ call.fn = "elastic_collision"
  /\ ~call.done
  /\ call' = [call EXCEPT !.done = TRUE,
                !.out = elastic_collision(call.m1, call.m2, call.v1, call.v2,
                                          call.r1, call.r2)]
  /\ KeepStore

SpecElastic == InitElastic /\ [][call_elastic_collision]_vars

\* Coordinates after integration: inside, on and beyond each wall
\* (half extents 637 and 357), and NaN
BoundaryXs == {R(0), R(637), R(638), R(-640), Frac(-1275, 2)}
BoundaryYs == {R(0), R(-357), R(362), R(-359), NaN}
BoundaryVelocities == {Vec(R(0), R(-1)), Vec(R(2), R(3)), Vec(R(-4), R(0))}

InitBoundary ==
  /\ NoStore
  /\ \E x \in BoundaryXs, y \in BoundaryYs, v \in BoundaryVelocities :
       LET p == [position |-> Vec(x, y), velocity |-> v,
                 mass |-> R(PARTICLE_SIZE)]
       IN  call = [fn |-> "detect_boundaries", particle |-> p,
                   done |-> FALSE, out |-> p]

call_detect_boundaries ==
  /\ call.fn = "detect_boundaries"
  /\ ~call.done
  /\ call' = [call EXCEPT !.done = TRUE,
                !.out = detect_boundaries(call.particle, Window)]
  /\ KeepStore

SpecBoundary == InitBoundary /\ [][call_detect_boundaries]_vars

----------------------------------------------------------------------------
(* Claims *)

StageOrder == <<"gravity", "detect_collisions", "update_density",
                "apply_pressure_force">>

\* C1: in every frame the systems run in the order gravity,
\* detect_collisions, update_density, apply_pressure_force: at every moment
\* the systems completed so far are a prefix of that order.
C1_FixedStageOrder ==
  \A k \in 1..Len(ran) : ran[k] = StageOrder[k]

UnorderedPair(c) == {c.e1, c.e2}

\* C2: within one run of detect_collisions no unordered pair of particles
\* is in the candidate list twice, so the second loop, which resolves each
\* entry once, writes velocities for a pair at most once.
C2_PairAtMostOnce ==
  pc = "resolve" =>
    /\ ci \in 1..Len(collisions)
    /\ \A k, l \in 1..Len(collisions) :
         k # l => UnorderedPair(collisions[k]) # UnorderedPair(collisions[l])

\* the last of three candidates is being resolved
C2_Witness ==
  /\ pc = "resolve"
  /\ ci = Len(collisions)
  /\ Len(collisions) = 3

\* C3: resolving a candidate whose two snapshotted positions are equal
\* leaves both particles' velocities as they were (and so writes no NaN).
C3_ZeroDistanceSkipped ==
  [][(resolve_collision /\ collisions[ci].pos1 = collisions[ci].pos2) =>
       /\ particles'[collisions[ci].e1].velocity
            = particles[collisions[ci].e1].velocity
       /\ particles'[collisions[ci].e2].velocity
            = particles[collisions[ci].e2].velocity
       /\ VIsFinite(particles'[collisions[ci].e1].velocity)
       /\ VIsFinite(particles'[collisions[ci].e2].velocity)]_vars

\* C5: whenever the pressure stage runs, every density it divides by is
\* strictly positive: densities[i] for every particle i, and densities[j]
\* for every term j it accumulates for i.
C5_DivisorsPositive ==
  Schedulable("apply_pressure_force") =>
    \A i \in DOMAIN QueryOrder :
      /\ densities[i] > 0
      /\ \A j \in PressureTerms(i) : densities[j] > 0

\* C6: whenever the pressure stage runs, the density buffer has one entry
\* per particle and every entry was written by update_density in the same
\* frame, for the particle the pressure stage reads it for.
C6_DensitiesFresh ==
  Schedulable("apply_pressure_force") =>
    /\ Len(densities) = Cardinality(Entities)
    /\ \A i \in DOMAIN densities :
         densityWrite[i] = [tick |-> tick, entity |-> QueryOrder[i]]

C6_Witness ==
  /\ Schedulable("apply_pressure_force")
  /\ tick = 2
  /\ "gravity" \in Ran

InsideDomain(particle) ==
  /\ RGe(RSub(RDiv(Window.width, R(2)), particle.mass), RAbs(particle.position[1]))
  /\ RGe(RSub(RDiv(Window.height, R(2)), particle.mass), RAbs(particle.position[2]))

\* C10: once gravity has run in a frame, every particle's Transform
\* translation equals its Particle.position (the position the later stages
\* read from either) and lies inside the domain.
C10_TransformIsPosition ==
  "gravity" \in Ran =>
    \A e \in Entities :
      /\ transforms[e] = particles[e].position
      /\ ~VIsNaN(particles[e].position) => InsideDomain(particles[e])

\* The relative velocity along the contact normal of a candidate, as
\* elastic_collision computes it from the snapshot, is positive
Separating(c) ==
  RPos(DotUnit(VSub(c.vel1, c.vel2), normalize(VSub(c.pos1, c.pos2))).c)

\* C8: processing a candidate that is already separating (v_rel > 0) leaves
\* the stored velocity of both of its particles as it was just before.
C8_SeparatingPairUntouched ==
  [][(resolve_collision /\ Separating(collisions[ci])) =>
       /\ particles'[collisions[ci].e1].velocity
            = particles[collisions[ci].e1].velocity
       /\ particles'[collisions[ci].e2].velocity
            = particles[collisions[ci].e2].velocity]_vars

\* The second loop of detect_collisions over a whole candidate list
RECURSIVE ResolveAll(_, _)
ResolveAll(store, cands) ==
  IF cands = <<>> THEN store
  ELSE ResolveAll(Resolve(store, Head(cands)), Tail(cands))

IterationOrders ==
  {o \in [DOMAIN entities -> DOMAIN entities] :
     \A a, b \in DOMAIN entities : a # b => o[a] # o[b]}

\* The store as it was when the running detect_collisions took its snapshot
StoreAtSnapshot ==
  [e \in Entities |->
     [particles[e] EXCEPT
        !.velocity = entities[CHOOSE k \in 1..Len(entities) :
                                entities[k].entity = e].vel]]

\* C9: when detect_collisions completes, the velocities it leaves are the
\* ones it would leave for every other order of iterating the particles.
C9_OrderIndependent ==
  [][(pc = "resolve" /\ pc' = "idle") =>
       \A o \in IterationOrders :
         particles' = ResolveAll(StoreAtSnapshot,
                         Candidates([k \in 1..Len(entities) |-> entities[o[k]]]))]_vars

Momentum(m1, v1, m2, v2) == VAdd(VScale(v1, m1), VScale(v2, m2))

Cross(u, v) == RSub(RMul(u[1], v[2]), RMul(u[2], v[1]))

\* Equal masses, both velocities along the line of centres, approaching
HeadOn(c) ==
  /\ c.m1 = c.m2
  /\ Cross(c.v1, VSub(c.r1, c.r2)) = R(0)
  /\ Cross(c.v2, VSub(c.r1, c.r2)) = R(0)
  /\ ~RPos(VDot(VSub(c.v1, c.v2), VSub(c.r1, c.r2)))

ScenarioSwap(c) ==
  /\ c.m1 = R(1) /\ c.m2 = R(1)
  /\ c.r1 = Vec(R(0), R(0)) /\ c.r2 = Vec(R(1), R(0))
  /\ c.v1 = Vec(R(1), R(0)) /\ c.v2 = VZero

\* C7: for positive masses and distinct positions (restitution 1), one
\* elastic_collision conserves total momentum; equal masses meeting head-on
\* exchange their velocities, as (1,0),(0,0) -> (0,0),(1,0) at (0,0),(1,0).
C7_MomentumConserved ==
  (call.fn = "elastic_collision" /\ call.done /\ call.r1 # call.r2) =>
    /\ Momentum(call.m1, call.out[1], call.m2, call.out[2])
         = Momentum(call.m1, call.v1, call.m2, call.v2)
    /\ HeadOn(call) => call.out = <<call.v2, call.v1>>
    /\ ScenarioSwap(call) => call.out = <<VZero, Vec(R(1), R(0))>>

C7_Witness ==
  /\ call.fn = "elastic_collision"
  /\ call.done
  /\ ScenarioSwap(call)
  /\ call.out # <<call.v1, call.v2>>

AxisReflected(axis, half, before, after) ==
  IF RGt(RAbs(before.position[axis]), half)
  THEN /\ after.position[axis]
            = (IF before.position[axis].n < 0 THEN RNeg(half) ELSE half)
       /\ after.velocity[axis]
            = RNeg(RMul(before.velocity[axis], COLLISION_DAMPENING))
  ELSE /\ after.position[axis] = before.position[axis]
       /\ after.velocity[axis] = before.velocity[axis]

\* C4: detect_boundaries treats each axis on its own: beyond the half
\* extent (half the window minus the mass) the coordinate becomes the half
\* extent with the coordinate's sign and that axis's velocity component is
\* multiplied by -damping; otherwise both are unchanged.
C4_AxesIndependent ==
  (call.fn = "detect_boundaries" /\ call.done) =>
    /\ AxisReflected(1, RSub(RDiv(Window.width, R(2)), call.particle.mass),
                     call.particle, call.out)
    /\ AxisReflected(2, RSub(RDiv(Window.height, R(2)), call.particle.mass),
                     call.particle, call.out)
    /\ call.out.mass = call.particle.mass

\* a corner contact: both axes reflected in the one call
C4_Witness ==
  /\ call.fn = "detect_boundaries"
  /\ call.done
  /\ call.particle.position = Vec(R(638), R(362))
  /\ call.particle.velocity = Vec(R(2), R(3))
  /\ call.out.position = Vec(R(637), R(357))
  /\ call.out.velocity = Vec(R(-1), Frac(-3, 2))

=============================================================================
